---- MODULE Spec2Model ----
(***************************************************************************)
(* Model of featured/06_vispy.ipynb: a canvas, a two-stage shader program, *)
(* one attribute buffer (a_position) and the two callbacks on_resize and   *)
(* on_draw that the event loop started by app.run() invokes.               *)
(*                                                                         *)
(* Coordinates are exact fixed-point numbers: the integer Unit stands for  *)
(* 1.0, so -1.0 is -Unit and 0.5 is Unit \div 2.                           *)
(***************************************************************************)
EXTENDS Integers, Sequences, FiniteSets, TLC

(* ---------------- bounds of the model ---------------- *)

\* rows of the attribute array (1000 in the notebook)
NPoints == 3

\* np.random.uniform returns one of YSteps + 1 evenly spaced values
YSteps == 1

\* canvas widths and heights range over 1..MaxDim
MaxDim == 2

\* draw calls followed per run
MaxDraws == 3

(* ---------------- numbers ---------------- *)

\* 1.0 in fixed point; divisible by 2, by NPoints-1 and by YSteps
Unit == 2 * (NPoints - 1) * YSteps

\* linspace with the samples counted from 1 instead of 0
linspace_from_one(start, stop, num) ==
    LET div  == num - 1
        step == IF div > 0 THEN (stop - start) \div div ELSE 0
    IN  [i \in 1..num |-> start + i * step]

\* np.linspace(start, stop, num): num evenly spaced samples, endpoint included
linspace(start, stop, num) ==
    LET div  == num - 1
        step == IF div > 0 THEN (stop - start) \div div ELSE 0
    IN  [i \in 1..num |->
            IF num > 1 /\ i = num THEN stop ELSE start + (i - 1) * step]

\* the values one call of np.random.uniform(low, high) can return: from low
\* up to high (high itself can come out through floating-point rounding)
uniform_values(low, high) ==
    { low + (j * (high - low)) \div YSteps : j \in 0..YSteps }

\* np.random.uniform(low, high, size): every array of size draws
uniform(low, high, size) == [1..size -> uniform_values(low, high)]

\* np.c_[a, b]: a and b side by side as the two columns of one 2D array
c_(a, b) == [i \in 1..Len(a) |-> <<a[i], b[i]>>]

(* ---------------- shader sources ---------------- *)

\* A source text is kept as what the binding reads from it: whether it is
\* syntactically valid GLSL and which attribute variables it references.
\* a vertex stage that reads no attribute
vertex_without_attribute ==
    [stage |-> "vertex", valid |-> TRUE, attributes |-> {}]

vertex ==
    [stage |-> "vertex", valid |-> TRUE, attributes |-> {"a_position"}]

fragment ==
    [stage |-> "fragment", valid |-> TRUE, attributes |-> {}]

\* a main() that hands the two coordinates on in the wrong order
vertex_main_swapped(a_position) == <<a_position[2], a_position[1], 0, Unit>>

\* the body of the vertex stage's main(): gl_Position = vec4(a_position, 0.0, 1.0)
vertex_main(a_position) == <<a_position[1], a_position[2], 0, Unit>>

\* the body of the fragment stage's main(): gl_FragColor = vec4(0.0, 0.0, 0.0, 1.0)
fragment_main == <<0, 0, 0, 1>>

\* the name `vertex` or `fragment` before its cell has run
NoSource == [stage |-> "none", valid |-> FALSE, attributes |-> {}]

\* source texts a client can hand to the program: the notebook's two and a
\* syntactically broken variant of each
ShaderSources(stage) ==
    IF stage = "vertex"
    THEN {vertex, [vertex EXCEPT !.valid = FALSE]}
    ELSE {fragment, [fragment EXCEPT !.valid = FALSE]}

(* ---------------- the binding: gloo.Program ---------------- *)

\* the name `program` before its cell has run, or after the constructor raised
NoProgram ==
    [exists |-> FALSE, vertex |-> NoSource, fragment |-> NoSource,
     data |-> [n \in {} |-> <<>>]]

\* Program as it would be if only the vertex stage were compiled
Program_vertex_only(vs, fs) ==
    IF vs.valid
    THEN [raised |-> "none",
          value  |-> [exists |-> TRUE, vertex |-> vs, fragment |-> fs,
                      data |-> [n \in {} |-> <<>>]]]
    ELSE [raised |-> "CompileError", value |-> NoProgram]

\* gloo.Program(vertex, fragment): compiles both stages
Program(vs, fs) ==
    IF vs.valid /\ fs.valid
    THEN [raised |-> "none",
          value  |-> [exists |-> TRUE, vertex |-> vs, fragment |-> fs,
                      data |-> [n \in {} |-> <<>>]]]
    ELSE [raised |-> "CompileError", value |-> NoProgram]

\* program[name] = value: the array becomes the data of attribute `name`
setitem(prog, name, value) ==
    [prog EXCEPT !.data =
        [n \in (DOMAIN prog.data) \cup {name} |->
            IF n = name THEN value ELSE prog.data[n]]]

\* attributes the stages reference that have no data yet
unbound(prog) ==
    (prog.vertex.attributes \cup prog.fragment.attributes) \ DOMAIN prog.data

(* ---------------- the pipeline ---------------- *)

Topologies == {"points", "line_strip", "triangles"}

\* a strip that is closed back to its first point
line_strip_closed(positions) ==
    IF Len(positions) < 2 THEN <<>>
    ELSE [i \in 1..Len(positions) |->
            <<positions[i], positions[(i % Len(positions)) + 1]>>]

\* line_strip: run through the vertices, drawing a segment from each point to
\* the next one
RECURSIVE line_strip(_)
line_strip(positions) ==
    IF Len(positions) < 2 THEN <<>>
    ELSE <<<<positions[1], positions[2]>>>> \o line_strip(Tail(positions))

\* points: one primitive per vertex
points(positions) == [i \in 1..Len(positions) |-> <<positions[i]>>]

\* triangles: one triangle for every triplet of points
RECURSIVE triangles(_)
triangles(positions) ==
    IF Len(positions) < 3 THEN <<>>
    ELSE <<SubSeq(positions, 1, 3)>>
         \o triangles(SubSeq(positions, 4, Len(positions)))

\* primitive assembly under the given primitive type
assemble(mode, positions) ==
    CASE mode = "line_strip" -> line_strip(positions)
      [] mode = "points"     -> points(positions)
      [] mode = "triangles"  -> triangles(positions)

\* a vertex stage that stops one data point early
vertex_stage_short(rows) ==
    [i \in 1..(Len(rows) - 1) |-> vertex_main(rows[i])]

\* the vertex stage: main() executes once per data point, in buffer order
vertex_stage(rows) == [i \in 1..Len(rows) |-> vertex_main(rows[i])]

\* the rendering pipeline of one draw call: the buffer's rows go through the
\* vertex stage, primitives are assembled from the returned points, and the
\* fragment stage colors their pixels
render(prog, mode, vp) ==
    LET attrs     == prog.vertex.attributes
        rows      == IF attrs = {} THEN <<>>
                     ELSE prog.data[CHOOSE a \in attrs : TRUE]
        positions == vertex_stage(rows)
    IN  [mode       |-> mode,
         nvertices  |-> Len(positions),
         positions  |-> positions,
         primitives |-> assemble(mode, positions),
         color      |-> fragment_main,
         viewport   |-> vp]

\* program.draw(mode): refused while a referenced attribute has no data
draw(prog, mode, vp) ==
    IF unbound(prog) # {}
    THEN [raised |-> "RuntimeError", batch |-> <<>>]
    ELSE [raised |-> "none", batch |-> <<render(prog, mode, vp)>>]

\* gloo.clear(color): the whole window takes the color, earlier drawings go
clear(color) == [color |-> color, batches |-> <<>>]

\* the window's contents before anything was cleared or drawn
EmptyFramebuffer == [color |-> <<0, 0, 0, 0>>, batches |-> <<>>]

\* gloo.set_viewport(x, y, w, h)
set_viewport(x, y, w, h) == <<x, y, w, h>>

\* the viewport of a fresh context: the whole window it is attached to
initial_viewport(size) == <<0, 0, size[1], size[2]>>

(* ---------------- state ---------------- *)

VARIABLES
    pc,           \* the next cell the script runs, or where it ended
    src,          \* the names `vertex` and `fragment`
    c,            \* the canvas: its window, size and connected callbacks
    program,      \* the name `program`
    viewport,     \* the viewport of the canvas's context
    framebuffer,  \* what the window shows
    stack,        \* callbacks the event loop has called and that have not returned
    glcalls,      \* commands issued by the callback called last
    raised,       \* how the step taken last ended: "none" or the exception's name
    resized,      \* whether a resize event has been delivered
    ndraws,       \* draw calls that rendered
    firstDraw,    \* what the first draw that rendered saw
    lastDraw      \* what the last draw that rendered saw

vars == <<pc, src, c, program, viewport, framebuffer, stack, glcalls, raised,
          resized, ndraws, firstDraw, lastDraw>>

Sizes == (1..MaxDim) \X (1..MaxDim)

NoCanvas == [exists |-> FALSE, size |-> <<0, 0>>, callbacks |-> {}, visible |-> FALSE]

\* the attribute data, viewport and canvas size a draw saw, and whether a
\* resize event had been delivered before it
NoDraw ==
    [data |-> <<>>, viewport |-> <<0, 0, 0, 0>>, size |-> <<0, 0>>,
     resized |-> FALSE]

\* of the first draw only the data and the resize flag are kept
NoFirst == [data |-> <<>>, resized |-> FALSE]

First == [data |-> program.data, resized |-> resized]

Seen == [data |-> program.data, viewport |-> viewport, size |-> c.size,
         resized |-> resized]

\* the state both specifications start from: nothing created yet
Blank ==
    /\ c = NoCanvas
    /\ program = NoProgram
    /\ viewport = <<0, 0, 0, 0>>
    /\ framebuffer = EmptyFramebuffer
    /\ stack = <<>>
    /\ glcalls = <<>>
    /\ raised = "none"
    /\ resized = FALSE
    /\ ndraws = 0
    /\ firstDraw = NoFirst
    /\ lastDraw = NoDraw

\* the notebook after its imports
Init ==
    /\ pc = "canvas"
    /\ src = [vertex |-> NoSource, fragment |-> NoSource]
    /\ Blank

\* what a draw call that rendered leaves in the history variables
Rendered(res) ==
    /\ framebuffer' = [framebuffer EXCEPT !.batches = @ \o res.batch]
    /\ ndraws' = ndraws + 1
    /\ firstDraw' = IF ndraws = 0 THEN First ELSE firstDraw
    /\ lastDraw' = Seen

(* ---------------- the script, cell by cell ---------------- *)

\* c = app.Canvas(keys='interactive')
Canvas ==
    /\ pc = "canvas"
    /\ \E size \in Sizes :
          /\ c' = [exists |-> TRUE, size |-> size, callbacks |-> {}, visible |-> FALSE]
          /\ viewport' = initial_viewport(size)
    /\ pc' = "vertex"
    /\ raised' = "none"
    /\ UNCHANGED <<src, program, framebuffer, stack, glcalls, resized, ndraws, firstDraw, lastDraw>>

\* vertex = """ ... """
Vertex ==
    /\ pc = "vertex"
    /\ src' = [src EXCEPT !.vertex = vertex]
    /\ pc' = "fragment"
    /\ raised' = "none"
    /\ UNCHANGED <<c, program, viewport, framebuffer, stack, glcalls, resized, ndraws, firstDraw, lastDraw>>

\* fragment = """ ... """
Fragment ==
    /\ pc = "fragment"
    /\ src' = [src EXCEPT !.fragment = fragment]
    /\ pc' = "program"
    /\ raised' = "none"
    /\ UNCHANGED <<c, program, viewport, framebuffer, stack, glcalls, resized, ndraws, firstDraw, lastDraw>>

\* program = gloo.Program(vertex, fragment)
NewProgram ==
    /\ pc = "program"
    /\ LET res == Program(src.vertex, src.fragment)
       IN  /\ raised' = res.raised
           /\ program' = IF res.raised = "none" THEN res.value ELSE program
           /\ pc' = IF res.raised = "none" THEN "a_position" ELSE "failed"
    /\ UNCHANGED <<src, c, viewport, framebuffer, stack, glcalls, resized, ndraws, firstDraw, lastDraw>>

\* the array the notebook builds: x evenly spaced, y random
a_position_data(y) == c_(linspace(-Unit, Unit, NPoints), y)

\* the cell with the attribute's name misspelt
SetAPosition_misnamed ==
    /\ pc = "a_position"
    /\ \E y \in uniform(-(Unit \div 2), Unit \div 2, NPoints) :
          program' = setitem(program, "position", a_position_data(y))
    /\ pc' = "on_resize"
    /\ raised' = "none"
    /\ UNCHANGED <<src, c, viewport, framebuffer, stack, glcalls, resized, ndraws, firstDraw, lastDraw>>

\* program['a_position'] = np.c_[np.linspace(...), np.random.uniform(...)]
SetAPosition ==
    /\ pc = "a_position"
    /\ \E y \in uniform(-(Unit \div 2), Unit \div 2, NPoints) :
          program' = setitem(program, "a_position", a_position_data(y))
    /\ pc' = "on_resize"
    /\ raised' = "none"
    /\ UNCHANGED <<src, c, viewport, framebuffer, stack, glcalls, resized, ndraws, firstDraw, lastDraw>>

\* @c.connect def on_resize(event): ...
ConnectOnResize ==
    /\ pc = "on_resize"
    /\ c' = [c EXCEPT !.callbacks = @ \cup {"on_resize"}]
    /\ pc' = "on_draw"
    /\ raised' = "none"
    /\ UNCHANGED <<src, program, viewport, framebuffer, stack, glcalls, resized, ndraws, firstDraw, lastDraw>>

\* @c.connect def on_draw(event): ...
ConnectOnDraw ==
    /\ pc = "on_draw"
    /\ c' = [c EXCEPT !.callbacks = @ \cup {"on_draw"}]
    /\ pc' = "show"
    /\ raised' = "none"
    /\ UNCHANGED <<src, program, viewport, framebuffer, stack, glcalls, resized, ndraws, firstDraw, lastDraw>>

\* c.show()
Show ==
    /\ pc = "show"
    /\ c' = [c EXCEPT !.visible = TRUE]
    /\ pc' = "run"
    /\ raised' = "none"
    /\ UNCHANGED <<src, program, viewport, framebuffer, stack, glcalls, resized, ndraws, firstDraw, lastDraw>>

(* ---------------- app.run(): the event loop and the callbacks ---------------- *)

\* a loop that takes events while a callback is still executing
may_dispatch_reentrant == TRUE

\* the loop takes the next event only when the callback it called has returned
may_dispatch == stack = <<>>

\* the frame of the callback that is executing
top == stack[Len(stack)]

\* the event loop calls the callback connected for the event, if any
call(name, event) ==
    IF name \in c.callbacks
    THEN /\ stack' = Append(stack, [name |-> name, event |-> event, at |-> 1])
         /\ glcalls' = <<>>
    ELSE UNCHANGED <<stack, glcalls>>

\* the window takes a new size; the loop delivers a resize event carrying it
ResizeEvent ==
    /\ pc = "run"
    /\ may_dispatch
    /\ \E size \in Sizes :
          /\ c' = [c EXCEPT !.size = size]
          /\ call("on_resize", [type |-> "resize", size |-> size])
    /\ resized' = TRUE
    /\ raised' = "none"
    /\ UNCHANGED <<pc, src, program, viewport, framebuffer, ndraws, firstDraw, lastDraw>>

\* the canvas needs to be refreshed; the loop delivers a draw event
DrawEvent ==
    /\ pc = "run"
    /\ may_dispatch
    /\ ndraws < MaxDraws
    /\ call("on_draw", [type |-> "draw", size |-> c.size])
    /\ raised' = "none"
    /\ UNCHANGED <<pc, src, c, program, viewport, framebuffer, resized, ndraws,
                   firstDraw, lastDraw>>

\* on_resize with the width and the height exchanged
on_resize_swapped ==
    /\ stack # <<>>
    /\ top.name = "on_resize"
    /\ viewport' = set_viewport(0, 0, top.event.size[2], top.event.size[1])
    /\ glcalls' = Append(glcalls, [op |-> "set_viewport", arg |-> viewport'])
    /\ stack' = SubSeq(stack, 1, Len(stack) - 1)
    /\ raised' = "none"
    /\ UNCHANGED <<pc, src, c, program, framebuffer, resized, ndraws, firstDraw, lastDraw>>

\* on_resize that also uploads a fresh signal
on_resize_upload ==
    /\ stack # <<>>
    /\ top.name = "on_resize"
    /\ viewport' = set_viewport(0, 0, top.event.size[1], top.event.size[2])
    /\ \E y \in uniform(-(Unit \div 2), Unit \div 2, NPoints) :
          program' = setitem(program, "a_position", a_position_data(y))
    /\ glcalls' = Append(glcalls, [op |-> "set_viewport", arg |-> viewport'])
    /\ stack' = SubSeq(stack, 1, Len(stack) - 1)
    /\ raised' = "none"
    /\ UNCHANGED <<pc, src, c, framebuffer, resized, ndraws, firstDraw, lastDraw>>

\* def on_resize(event): gloo.set_viewport(0, 0, *event.size)
on_resize ==
    /\ stack # <<>>
    /\ top.name = "on_resize"
    /\ viewport' = set_viewport(0, 0, top.event.size[1], top.event.size[2])
    /\ glcalls' = Append(glcalls, [op |-> "set_viewport", arg |-> viewport'])
    /\ stack' = SubSeq(stack, 1, Len(stack) - 1)
    /\ raised' = "none"
    /\ UNCHANGED <<pc, src, c, program, framebuffer, resized, ndraws, firstDraw, lastDraw>>

\* on_draw is followed statement by statement, so that a state between its
\* clear and its draw exists and anything the loop could run there would show.

\* on_draw with the clear left out
on_draw_without_clear ==
    /\ stack # <<>>
    /\ top.name = "on_draw"
    /\ top.at = 1
    /\ stack' = [stack EXCEPT ![Len(stack)].at = 2]
    /\ raised' = "none"
    /\ UNCHANGED <<pc, src, c, program, viewport, framebuffer, glcalls, resized,
                   ndraws, firstDraw, lastDraw>>

\* def on_draw(event), first statement: gloo.clear((1,1,1,1))
on_draw_clear ==
    /\ stack # <<>>
    /\ top.name = "on_draw"
    /\ top.at = 1
    /\ framebuffer' = clear(<<1, 1, 1, 1>>)
    /\ glcalls' = Append(glcalls, [op |-> "clear", arg |-> <<1, 1, 1, 1>>])
    /\ stack' = [stack EXCEPT ![Len(stack)].at = 2]
    /\ raised' = "none"
    /\ UNCHANGED <<pc, src, c, program, viewport, resized, ndraws, firstDraw, lastDraw>>

\* def on_draw(event), second statement: program.draw('line_strip')
on_draw_draw ==
    /\ stack # <<>>
    /\ top.name = "on_draw"
    /\ top.at = 2
    /\ LET res == draw(program, "line_strip", viewport)
       IN  /\ raised' = res.raised
           /\ IF res.raised = "none"
              THEN Rendered(res)
              ELSE UNCHANGED <<framebuffer, ndraws, firstDraw, lastDraw>>
    /\ glcalls' = Append(glcalls, [op |-> "draw", arg |-> "line_strip"])
    /\ stack' = SubSeq(stack, 1, Len(stack) - 1)
    /\ UNCHANGED <<pc, src, c, program, viewport, resized>>

\* app.run() starts the loop; it returns when the window is closed
Close ==
    /\ pc = "run"
    /\ may_dispatch
    /\ pc' = "exited"
    /\ c' = [c EXCEPT !.visible = FALSE]
    /\ raised' = "none"
    /\ UNCHANGED <<src, program, viewport, framebuffer, stack, glcalls, resized, ndraws, firstDraw, lastDraw>>

Next ==
    \/ Canvas
    \/ Vertex
    \/ Fragment
    \/ NewProgram
    \/ SetAPosition
    \/ ConnectOnResize
    \/ ConnectOnDraw
    \/ Show
    \/ ResizeEvent
    \/ DrawEvent
    \/ on_resize
    \/ on_draw_clear
    \/ on_draw_draw
    \/ Close

Spec == Init /\ [][Next]_vars

(* ---------------- the program's contract, driven by any client ---------------- *)

\* A client that holds two source texts, valid or not, builds the program
\* once and then binds, clears and draws in any order with any primitive type.

InitApi ==
    /\ pc = "api_new"
    /\ \E vs \in ShaderSources("vertex"), fs \in ShaderSources("fragment") :
          src = [vertex |-> vs, fragment |-> fs]
    /\ c = [exists |-> TRUE, size |-> <<MaxDim, MaxDim>>, callbacks |-> {},
            visible |-> TRUE]
    /\ viewport = initial_viewport(c.size)
    /\ program = NoProgram
    /\ framebuffer = EmptyFramebuffer
    /\ stack = <<>>
    /\ glcalls = <<>>
    /\ raised = "none"
    /\ resized = FALSE
    /\ ndraws = 0
    /\ firstDraw = NoFirst
    /\ lastDraw = NoDraw

\* program = gloo.Program(vertex, fragment), with the client's texts
ApiProgram ==
    /\ pc = "api_new"
    /\ LET res == Program(src.vertex, src.fragment)
       IN  /\ raised' = res.raised
           /\ program' = IF res.raised = "none" THEN res.value ELSE program
    /\ pc' = "api"
    /\ glcalls' = <<[op |-> "Program", arg |-> "sources"]>>
    /\ UNCHANGED <<src, c, viewport, framebuffer, stack, resized, ndraws, firstDraw, lastDraw>>

\* program['a_position'] = data, an (n, 2) array pushed once; the name
\* `program` is undefined after a failed build
ApiSetItem ==
    /\ pc = "api"
    /\ "a_position" \notin DOMAIN program.data
    /\ \E n \in 1..NPoints :
       \E y \in uniform(-(Unit \div 2), Unit \div 2, n) :
          IF program.exists
          THEN /\ program' = setitem(program, "a_position",
                                     c_(linspace(-Unit, Unit, n), y))
               /\ raised' = "none"
          ELSE /\ program' = program
               /\ raised' = "NameError"
    /\ glcalls' = <<[op |-> "setitem", arg |-> "a_position"]>>
    /\ UNCHANGED <<pc, src, c, viewport, framebuffer, stack, resized, ndraws, firstDraw, lastDraw>>

\* gloo.clear((1,1,1,1))
ApiClear ==
    /\ pc = "api"
    /\ framebuffer' = clear(<<1, 1, 1, 1>>)
    /\ raised' = "none"
    /\ glcalls' = <<[op |-> "clear", arg |-> <<1, 1, 1, 1>>]>>
    /\ UNCHANGED <<pc, src, c, program, viewport, stack, resized, ndraws, firstDraw, lastDraw>>

\* program.draw(mode), for any primitive type
ApiDraw ==
    /\ pc = "api"
    /\ ndraws < MaxDraws
    /\ \E mode \in Topologies :
          /\ glcalls' = <<[op |-> "draw", arg |-> mode]>>
          /\ IF program.exists
             THEN LET res == draw(program, mode, viewport)
                  IN  /\ raised' = res.raised
                      /\ IF res.raised = "none"
                         THEN Rendered(res)
                         ELSE UNCHANGED <<framebuffer, ndraws, firstDraw, lastDraw>>
             ELSE /\ raised' = "NameError"
                  /\ UNCHANGED <<framebuffer, ndraws, firstDraw, lastDraw>>
    /\ UNCHANGED <<pc, src, c, program, viewport, stack, resized>>

NextApi ==
    \/ ApiProgram
    \/ ApiSetItem
    \/ ApiClear
    \/ ApiDraw

SpecContract == InitApi /\ [][NextApi]_vars

(* ---------------- properties of the program's contract ---------------- *)

\* the call the client made in the step taken last
LastCall == IF glcalls = <<>> THEN "none" ELSE glcalls[Len(glcalls)].op

\* C1: with the program built from the notebook's shaders, a draw call made
\* while a_position has no data ends in RuntimeError and renders nothing,
\* whatever the primitive type.
C1_DrawUnboundRaises ==
    [][ ( /\ pc = "api"
          /\ program.exists
          /\ "a_position" \notin DOMAIN program.data
          /\ LastCall' = "draw" )
        => ( /\ raised' = "RuntimeError"
             /\ framebuffer' = framebuffer
             /\ ndraws' = ndraws ) ]_vars

\* C1 witness: the notebook's program, a_position unbound, a draw of triangles
\* was refused
C1_Witness ==
    /\ program.exists
    /\ program.vertex = vertex
    /\ program.fragment = fragment
    /\ "a_position" \notin DOMAIN program.data
    /\ LastCall = "draw"
    /\ glcalls[1].arg = "triangles"
    /\ raised = "RuntimeError"
    /\ framebuffer.batches = <<>>

\* both of the client's source texts are syntactically valid
BothValid == src.vertex.valid /\ src.fragment.valid

\* C2: building the program ends in CompileError exactly when the vertex or
\* the fragment text is invalid; it yields a program only when both are
\* valid, and after a failed build nothing is bound and nothing is drawn.
C2_CompileContract ==
    /\ [][ pc = "api_new" =>
             raised' = (IF BothValid THEN "none" ELSE "CompileError") ]_vars
    /\ [] ( pc = "api" =>
              /\ program.exists <=> BothValid
              /\ ~program.exists =>
                    /\ program = NoProgram
                    /\ framebuffer.batches = <<>>
                    /\ ndraws = 0
                    /\ raised \in {"CompileError", "NameError", "none"}
                    /\ LastCall \in {"setitem", "draw"} => raised = "NameError" )

\* C2 witness: only the fragment text is invalid, the build failed, and a
\* later draw found no program
C2_Witness ==
    /\ pc = "api"
    /\ src.vertex.valid
    /\ ~src.fragment.valid
    /\ ~program.exists
    /\ LastCall = "draw"
    /\ raised = "NameError"

(* ---------------- properties of the notebook ---------------- *)

\* a_position has data
Bound == "a_position" \in DOMAIN program.data

\* the rows of the attribute buffer
Rows == program.data["a_position"]

\* the (x, y) part of a position returned by the vertex stage
xy(position) == <<position[1], position[2]>>

\* C3: the script creates the canvas, compiles the program and binds
\* a_position before any callback exists, callbacks run only inside app.run(),
\* and no step ends in CompileError or RuntimeError whatever events arrive.
C3_ScriptOrder ==
    /\ raised \notin {"CompileError", "RuntimeError"}
    /\ pc # "failed"
    /\ program.exists => c.exists
    /\ Bound => program.exists
    /\ c.callbacks # {} => Bound
    /\ stack # <<>> => (pc = "run" /\ program.exists /\ Bound)
    /\ glcalls # <<>> => Bound

\* C3 witness: the loop is running, two frames were drawn, a resize was
\* delivered and a callback is executing
C3_Witness ==
    /\ pc = "run"
    /\ ndraws >= 2
    /\ resized
    /\ stack # <<>>

\* C4: once a_position is bound no step changes the attribute data, and every
\* draw reads the data the first draw read.
C4_BufferImmutable ==
    /\ [][ Bound => program'.data = program.data ]_vars
    /\ [] ( ndraws >= 1 =>
              /\ firstDraw.data = program.data
              /\ lastDraw.data = firstDraw.data )

\* C4 witness: a second draw, made after a resize, has read the buffer
C4_Witness ==
    /\ ndraws >= 2
    /\ lastDraw.resized
    /\ lastDraw.data = program.data

\* C5: every row of the bound array lies in the normalized square: x runs
\* from -1 to 1 in equal non-negative steps, y stays within -0.5 .. 0.5.
C5_VerticesInNDC ==
    Bound =>
        LET n == Len(Rows)
        IN  /\ \A i \in 1..n :
                  /\ -Unit <= Rows[i][1] /\ Rows[i][1] <= Unit
                  /\ -Unit <= Rows[i][2] /\ Rows[i][2] <= Unit
                  /\ -Unit <= 2 * Rows[i][2] /\ 2 * Rows[i][2] <= Unit
            /\ Rows[1][1] = -Unit
            /\ Rows[n][1] = Unit
            /\ \A i \in 1..(n - 1) :
                  /\ Rows[i][1] <= Rows[i + 1][1]
                  /\ (Rows[i + 1][1] - Rows[i][1]) * (n - 1) = 2 * Unit

\* C5 witness: a bound array whose random column takes both extreme values
C5_Witness ==
    /\ Bound
    /\ \E i \in 1..Len(Rows) : 2 * Rows[i][2] = -Unit
    /\ \E i \in 1..Len(Rows) : 2 * Rows[i][2] = Unit

\* C6: a bound array always has NPoints rows of two components each, nothing
\* else is bound, and every draw runs the vertex stage on NPoints vertices.
C6_WholeBinding ==
    /\ DOMAIN program.data \subseteq {"a_position"}
    /\ Bound =>
          /\ DOMAIN Rows = 1..NPoints
          /\ \A i \in 1..NPoints : DOMAIN Rows[i] = 1..2
          /\ Len([i \in DOMAIN Rows |-> Rows[i][1]]) = NPoints
          /\ Len([i \in DOMAIN Rows |-> Rows[i][2]]) = NPoints
    /\ \A k \in 1..Len(framebuffer.batches) :
          framebuffer.batches[k].nvertices = NPoints
    /\ ndraws >= 1 => Len(lastDraw.data["a_position"]) = NPoints

\* C6 witness: a frame drawn from the whole array is on screen
C6_Witness ==
    /\ ndraws >= 1
    /\ Len(framebuffer.batches) = 1
    /\ framebuffer.batches[1].nvertices = NPoints

\* C7: a line_strip draw over n >= 1 vertices yields n - 1 segments, the i-th
\* from row i to row i + 1; no segment joins other rows, none closes the strip.
C7_LineStrip ==
    \A k \in 1..Len(framebuffer.batches) :
        LET b == framebuffer.batches[k]
            n == Len(Rows)
        IN  b.mode = "line_strip" =>
              /\ n >= 1
              /\ b.nvertices = n
              /\ Len(b.primitives) = n - 1
              /\ \A i \in 1..Len(b.primitives) :
                    /\ Len(b.primitives[i]) = 2
                    /\ i < n
                    /\ xy(b.primitives[i][1]) = Rows[i]
                    /\ xy(b.primitives[i][2]) = Rows[i + 1]
                    /\ \A j, l \in 1..n :
                          ( /\ xy(b.primitives[i][1]) = Rows[j]
                            /\ xy(b.primitives[i][2]) = Rows[l] ) => l = j + 1

\* C7 witness: a strip over NPoints vertices was drawn
C7_Witness ==
    \E k \in 1..Len(framebuffer.batches) :
        /\ framebuffer.batches[k].mode = "line_strip"
        /\ framebuffer.batches[k].nvertices = NPoints
        /\ Len(framebuffer.batches[k].primitives) = NPoints - 1

\* C8: at most one callback is executing at any time, and between the clear
\* and the draw of an on_draw nothing else runs: the canvas size and the
\* viewport stay as they are and the very next step ends that on_draw.
C8_OneCallbackAtATime ==
    /\ [] (Len(stack) <= 1)
    /\ [][ (stack # <<>> /\ top.name = "on_draw" /\ top.at = 2) =>
              /\ viewport' = viewport
              /\ c' = c
              /\ stack' = <<>>
              /\ LastCall' = "draw" ]_vars

\* C8 witness: an on_draw has cleared and not yet drawn, after a resize
C8_Witness ==
    /\ stack # <<>>
    /\ top.name = "on_draw"
    /\ top.at = 2
    /\ resized
    /\ ndraws >= 1

\* positions in the last callback's commands that are draw calls
DrawCalls == {i \in 1..Len(glcalls) : glcalls[i].op = "draw"}

\* C9: every draw call is a line_strip draw that directly follows a clear to
\* opaque white in the same callback, an on_draw issues exactly one draw, and
\* the window never shows more than the segments of the latest draw.
C9_ClearBeforeDraw ==
    /\ \A i \in DrawCalls :
          /\ glcalls[i].arg = "line_strip"
          /\ i > 1
          /\ glcalls[i - 1].op = "clear"
          /\ glcalls[i - 1].arg = <<1, 1, 1, 1>>
    /\ Cardinality(DrawCalls) <= 1
    /\ (stack = <<>> /\ LastCall \in {"clear", "draw"}) => Cardinality(DrawCalls) = 1
    /\ Len(framebuffer.batches) <= 1
    /\ framebuffer.batches # <<>> =>
          /\ framebuffer.color = <<1, 1, 1, 1>>
          /\ framebuffer.batches[1] = render(program, "line_strip", lastDraw.viewport)

\* C9 witness: the second frame is complete and shows one strip on white
C9_Witness ==
    /\ ndraws >= 2
    /\ stack = <<>>
    /\ Len(glcalls) = 2
    /\ glcalls[1].op = "clear"
    /\ glcalls[2].op = "draw"
    /\ Len(framebuffer.batches) = 1

\* the viewport that covers a canvas of the given size
Covering(size) == <<0, 0, size[1], size[2]>>

C11_VertexPassThrough ==
    \A k \in 1..Len(framebuffer.batches) :
        LET b == framebuffer.batches[k]
        IN  /\ Bound
            /\ DOMAIN b.positions = DOMAIN Rows
            /\ b.nvertices = Len(Rows)
            /\ \A i \in DOMAIN b.positions :
                  /\ b.positions[i] = <<Rows[i][1], Rows[i][2], 0, Unit>>
                  /\ xy(b.positions[i]) = Rows[i]
                  /\ -Unit <= b.positions[i][1] /\ b.positions[i][1] <= Unit
                  /\ -Unit <= b.positions[i][2] /\ b.positions[i][2] <= Unit
            /\ b.primitives = line_strip(b.positions)

\* C11 witness: a frame was drawn whose last position sits on the right edge
\* of the square, at the lowest value of the signal
C11_Witness ==
    /\ ndraws >= 1
    /\ Len(framebuffer.batches) = 1
    /\ Len(framebuffer.batches[1].positions) = NPoints
    /\ framebuffer.batches[1].positions[NPoints] = <<Unit, -(Unit \div 2), 0, Unit>>
    /\ framebuffer.batches[1].positions[1][1] = -Unit

====
